---- MODULE Spec2Model ----
(***************************************************************************)
(* A model of boazy/shorten: the Abbreviator (src/src/abbrev.rs) and the   *)
(* Shortener (src/src/shortener.rs).                                       *)
(*                                                                         *)
(* A Rust `str` is modelled as a sequence of characters, one TLA+ string   *)
(* per character.  A non-ASCII character is written by its code point      *)
(* ("U+00E9" is e-acute, "U+6BCE" is a CJK ideograph); len_utf8 gives the  *)
(* number of bytes of its UTF-8 encoding, so that str::len() (bytes) and   *)
(* chars().count() are different operators, as they are in Rust.           *)
(* Option<T> is a sequence of length 0 (None) or 1 (Some).                 *)
(***************************************************************************)
EXTENDS Naturals, Sequences, FiniteSets, TLC

None == <<>>
Some(v) == <<v>>
is_some(o) == o /= <<>>
unwrap(o) == o[1]

(***************************************************************************)
(* Characters                                                              *)
(***************************************************************************)
AsciiLower == <<"a", "b", "c", "d", "e", "f", "g", "h", "i", "j", "k", "l", "m",
                "n", "o", "p", "q", "r", "s", "t", "u", "v", "w", "x", "y", "z">>
AsciiUpper == <<"A", "B", "C", "D", "E", "F", "G", "H", "I", "J", "K", "L", "M",
                "N", "O", "P", "Q", "R", "S", "T", "U", "V", "W", "X", "Y", "Z">>

\* Non-ASCII characters of the model: e-acute, E-acute (2 bytes each) and
\* four CJK ideographs (3 bytes each, neither lowercase nor uppercase).
TwoByteChars == {"U+00E9", "U+00C9"}
ThreeByteChars == {"U+6BCE", "U+9031", "U+6708", "U+8AB2"}

IndexIn(c, table) == CHOOSE i \in 1..Len(table) : table[i] = c
IsIn(c, table) == \E i \in 1..Len(table) : table[i] = c

len_utf8(c) ==
    IF c \in TwoByteChars THEN 2 ELSE IF c \in ThreeByteChars THEN 3 ELSE 1

is_lowercase(c) == IsIn(c, AsciiLower) \/ c = "U+00E9"
is_uppercase(c) == IsIn(c, AsciiUpper) \/ c = "U+00C9"
is_whitespace(c) == c = " "

char_to_lowercase(c) ==
    IF IsIn(c, AsciiUpper) THEN AsciiLower[IndexIn(c, AsciiUpper)]
    ELSE IF c = "U+00C9" THEN "U+00E9"
    ELSE c

\* u8::make_ascii_uppercase on the byte of an ASCII character.
char_make_ascii_uppercase(c) ==
    IF IsIn(c, AsciiLower) THEN AsciiUpper[IndexIn(c, AsciiLower)] ELSE c

(***************************************************************************)
(* Strings                                                                 *)
(***************************************************************************)
RECURSIVE len(_)
\* str::len(): the length in bytes.
len(s) == IF s = <<>> THEN 0 ELSE len_utf8(Head(s)) + len(Tail(s))

\* str::chars().count(): the length in characters.
chars_count(s) == Len(s)

RECURSIVE trim_start(_)
trim_start(s) ==
    IF s /= <<>> /\ is_whitespace(Head(s)) THEN trim_start(Tail(s)) ELSE s

RECURSIVE trim_end(_)
trim_end(s) ==
    IF s /= <<>> /\ is_whitespace(s[Len(s)])
    THEN trim_end(SubSeq(s, 1, Len(s) - 1))
    ELSE s

trim(s) == trim_end(trim_start(s))

to_lowercase(s) == [i \in 1..Len(s) |-> char_to_lowercase(s[i])]

\* str::replace(from, to) for single characters.
replace(s, from, to) == [i \in 1..Len(s) |-> IF s[i] = from THEN to ELSE s[i]]

\* str::find(char): Some(position, counted from 0) or None.
find(s, c) ==
    IF \E i \in 1..Len(s) : s[i] = c
    THEN Some((CHOOSE i \in 1..Len(s) : s[i] = c /\ \A j \in 1..(i - 1) : s[j] /= c) - 1)
    ELSE None

starts_with(s, p) == Len(s) >= Len(p) /\ SubSeq(s, 1, Len(p)) = p

strip_prefix(s, p) ==
    IF starts_with(s, p) THEN Some(SubSeq(s, Len(p) + 1, Len(s))) ELSE None

\* str::contains(char)
contains(s, c) == \E i \in 1..Len(s) : s[i] = c

\* Length of the first whitespace-free run of s (s does not start with whitespace).
RECURSIVE word_len(_)
word_len(s) ==
    IF s = <<>> \/ is_whitespace(Head(s)) THEN 0 ELSE 1 + word_len(Tail(s))

RECURSIVE split_whitespace(_)
split_whitespace(s) ==
    LET t == trim_start(s)
        n == word_len(t)
    IN  IF t = <<>> THEN <<>>
        ELSE <<SubSeq(t, 1, n)>> \o split_whitespace(SubSeq(t, n + 1, Len(t)))

RECURSIVE join(_, _)
\* Itertools::join
join(ws, sep) ==
    IF ws = <<>> THEN <<>>
    ELSE IF Len(ws) = 1 THEN ws[1]
    ELSE ws[1] \o sep \o join(Tail(ws), sep)

(***************************************************************************)
(* The regex crate, for the patterns of the model: letters and groups.     *)
(* A pattern compiles iff its parentheses balance; an unanchored match is  *)
(* a substring match of the pattern's letters.                             *)
(***************************************************************************)
RECURSIVE ParensBalanced(_, _)
ParensBalanced(p, depth) ==
    IF p = <<>> THEN depth = 0
    ELSE IF Head(p) = "(" THEN ParensBalanced(Tail(p), depth + 1)
    ELSE IF Head(p) = ")" THEN depth > 0 /\ ParensBalanced(Tail(p), depth - 1)
    ELSE ParensBalanced(Tail(p), depth)

\* RegexBuilder::new(pattern).build() is Ok
regex_build_ok(pattern) == ParensBalanced(pattern, 0)

PatternLetters(p) == SelectSeq(p, LAMBDA c : c \notin {"(", ")"})

IsSubstring(p, s) ==
    \E i \in 0..(Len(s) - Len(p)) : SubSeq(s, i + 1, i + Len(p)) = p

\* Regex::is_match
is_match(re, text) ==
    IF re.case_insensitive
    THEN IsSubstring(to_lowercase(PatternLetters(re.text)), to_lowercase(text))
    ELSE IsSubstring(PatternLetters(re.text), text)

(***************************************************************************)
(* abbrev.rs: parse_abbrev                                                 *)
(***************************************************************************)
\* The result of parse_abbrev: Ok(Abbrev), Err(report) or a panic.
ParseErr(kind) == [status |-> "err", error |-> kind]
ParsePanic == [status |-> "panic"]

\* `title_case[0..1].make_ascii_uppercase()`: the slice 0..1 of a String panics
\* when byte 1 is not a character boundary.
title_case_slice_panics(abbrev) == abbrev /= <<>> /\ len_utf8(abbrev[1]) > 1

title_case_of(abbrev) == <<char_make_ascii_uppercase(abbrev[1])>> \o Tail(abbrev)

parse_abbrev(line) ==
    LET eq_pos == find(line, "=")
    IN  IF ~is_some(eq_pos) THEN ParseErr("Invalid abbreviation, no '=' found")
        ELSE
        LET matcher == trim(SubSeq(line, 1, unwrap(eq_pos)))
            rhs == trim(SubSeq(line, unwrap(eq_pos) + 2, Len(line)))
            stripped == strip_prefix(rhs, <<"<", "+">>)
            abbrev == IF is_some(stripped) THEN unwrap(stripped) ELSE rhs
            attach_to_previous == is_some(stripped)
            match_case == abbrev /= <<>> /\ is_lowercase(abbrev[1])
            title_case_version ==
                IF match_case THEN Some(title_case_of(abbrev)) ELSE None
            regex_matcher == strip_prefix(matcher, <<"/">>)
        IN  IF match_case /\ title_case_slice_panics(abbrev) THEN ParsePanic
            ELSE IF is_some(regex_matcher)
            THEN LET closing_pos == find(unwrap(regex_matcher), "/")
                 IN  IF ~is_some(closing_pos)
                     THEN ParseErr("Invalid regex, no closing '/' found")
                     ELSE
                     LET rm == unwrap(regex_matcher)
                         flags == SubSeq(rm, unwrap(closing_pos) + 2, Len(rm))
                         pattern == SubSeq(rm, 1, unwrap(closing_pos))
                     IN  IF ~regex_build_ok(pattern)
                         THEN ParseErr("regex parse error")
                         ELSE [status |-> "ok",
                               abbrev |-> [matcher |-> [kind |-> "Regex",
                                                        text |-> pattern,
                                                        case_insensitive |-> contains(flags, "i")],
                                           abbrev |-> abbrev,
                                           title_case_version |-> title_case_version,
                                           attach_to_previous |-> attach_to_previous]]
            ELSE [status |-> "ok",
                  abbrev |-> [matcher |-> [kind |-> "Lowercase",
                                           text |-> to_lowercase(matcher),
                                           case_insensitive |-> FALSE],
                              abbrev |-> abbrev,
                              title_case_version |-> title_case_version,
                              attach_to_previous |-> attach_to_previous]]

(***************************************************************************)
(* abbrev.rs: Abbrev::with_matching_case_to, Abbreviator::abbreviate       *)
(***************************************************************************)
Abbreviation(t, attach) == [text |-> t, attach_to_previous |-> attach]

\* A variant of with_matching_case_to that forgets the title-case version.
with_matching_case_to_literal(abbrev, original_text) ==
    Abbreviation(abbrev.abbrev, abbrev.attach_to_previous)

with_matching_case_to(abbrev, original_text) ==
    LET is_title_case == original_text /= <<>> /\ is_uppercase(original_text[1])
    IN  IF is_title_case /\ is_some(abbrev.title_case_version)
        THEN Abbreviation(unwrap(abbrev.title_case_version), abbrev.attach_to_previous)
        ELSE Abbreviation(abbrev.abbrev, abbrev.attach_to_previous)

\* The normal form abbreviate gives its input (abbrev.rs:68-71).
lowercase_of(t) == join(split_whitespace(replace(to_lowercase(t), "-", " ")), <<" ">>)

\* The first regex rule, in registration order, that matches t.
first_regex_match(regexes, t) ==
    IF \E i \in 1..Len(regexes) : is_match(regexes[i].matcher, t)
    THEN Some(regexes[CHOOSE i \in 1..Len(regexes) :
                        /\ is_match(regexes[i].matcher, t)
                        /\ \A j \in 1..(i - 1) : ~is_match(regexes[j].matcher, t)])
    ELSE None

\* self is the Abbreviator: [has_matchers, replace_matchers, remove_matchers,
\* regex_matchers].
abbreviate(self, t) ==
    IF ~self.has_matchers THEN None
    ELSE
    LET lowercase == lowercase_of(t)
    IN  IF lowercase \in self.remove_matchers
        THEN Some(Abbreviation(<<>>, TRUE))
        ELSE IF lowercase \in DOMAIN self.replace_matchers
        THEN Some(with_matching_case_to(self.replace_matchers[lowercase], t))
        ELSE LET re == first_regex_match(self.regex_matchers, t)
             IN  IF is_some(re) THEN Some(with_matching_case_to(unwrap(re), t))
                 ELSE None

(***************************************************************************)
(* shortener.rs: the output assembly (trait AddWithSpace) and the          *)
(* enclosing punctuation (trait Enclosing, process_enclosed_word)          *)
(***************************************************************************)
is_opener(c) == c \in {"(", "[", "{", "<", "\"", "*"}
is_closer(c) == c \in {")", "]", "}", ">", "\"", "*"}

\* A variant of add_with_space that puts the space before the first word too.
add_with_space_always(self, s) ==
    IF s = <<>> THEN self ELSE self \o <<" ">> \o s

add_with_space(self, s) ==
    IF s = <<>> THEN self
    ELSE LET last_is_opener == self /= <<>> /\ is_opener(self[Len(self)])
         IN  IF ~last_is_opener /\ self /= <<>>
             THEN self \o <<" ">> \o s
             ELSE self \o s

add_abbrev(self, abbrev) ==
    IF abbrev.text = <<>> THEN self
    ELSE IF abbrev.attach_to_previous THEN self \o abbrev.text
    ELSE add_with_space(self, abbrev.text)

\* input.chars().take_while(|c| c.is_opener()).count()
RECURSIVE opener_len(_)
opener_len(input) ==
    IF input /= <<>> /\ is_opener(Head(input)) THEN 1 + opener_len(Tail(input)) ELSE 0

\* input.chars().rev().take_while(|c| c.is_closer()).count()
RECURSIVE closer_len(_)
closer_len(input) ==
    IF input /= <<>> /\ is_closer(input[Len(input)])
    THEN 1 + closer_len(SubSeq(input, 1, Len(input) - 1))
    ELSE 0

\* `&input[opener_len..input.len() - closer_len]` panics when the range starts
\* after its end.  Openers and closers are ASCII, so the two counts are byte
\* offsets, and when the range is in order they are character offsets too.
process_enclosed_word(input) ==
    LET o == opener_len(input)
        c == closer_len(input)
    IN  IF o > len(input) - c THEN [status |-> "panic"]
        ELSE [status |-> "ok",
              word |-> SubSeq(input, o + 1, Len(input) - c),
              openers |-> SubSeq(input, 1, o),
              closers |-> SubSeq(input, Len(input) - c + 1, Len(input))]

is_enclosed(enclosed) == enclosed.openers /= <<>> \/ enclosed.closers /= <<>>

(***************************************************************************)
(* shortener.rs: Shortener                                                 *)
(***************************************************************************)
\* Returns the output and whether an abbreviation was found.
attempt_abbrev(abbreviator, abbreviated, t) ==
    LET abbrev == abbreviate(abbreviator, t)
    IN  IF is_some(abbrev)
        THEN [abbreviated |-> add_abbrev(abbreviated, unwrap(abbrev)), found |-> TRUE]
        ELSE [abbreviated |-> abbreviated, found |-> FALSE]

abbrev_or_add(abbreviator, abbreviated, t) ==
    LET abbrev == abbreviate(abbreviator, t)
    IN  IF is_some(abbrev) THEN add_abbrev(abbreviated, unwrap(abbrev))
        ELSE add_with_space(abbreviated, t)

\* One iteration of the loop of shorten for an enclosed word (lines 53-77):
\* the new [prev_word, abbreviated].
enclosed_word(abbreviator, prev, abbreviated, word, enclosed) ==
    LET flushed == IF is_some(prev)
                   THEN abbrev_or_add(abbreviator, abbreviated, unwrap(prev))
                   ELSE abbreviated
        raw == attempt_abbrev(abbreviator, flushed, word)
        abbrev == abbreviate(abbreviator, enclosed.word)
    IN  [prev_word |-> None,
         abbreviated |->
            IF raw.found THEN raw.abbreviated
            ELSE IF is_some(abbrev)
            THEN IF unwrap(abbrev).text /= <<>>
                 THEN add_abbrev(add_with_space(flushed, enclosed.openers), unwrap(abbrev))
                          \o enclosed.closers
                 ELSE flushed
            ELSE abbrev_or_add(abbreviator, add_with_space(flushed, enclosed.openers),
                               enclosed.word) \o enclosed.closers]

\* A variant of plain_word that never tries the pair of words.
plain_word_single(abbreviator, prev, abbreviated, word) ==
    [prev_word |-> Some(word),
     abbreviated |-> IF is_some(prev)
                     THEN abbrev_or_add(abbreviator, abbreviated, unwrap(prev))
                     ELSE abbreviated]

\* One iteration of the loop for a word that is not enclosed (lines 79-91).
plain_word(abbreviator, prev, abbreviated, word) ==
    IF ~is_some(prev) THEN [prev_word |-> Some(word), abbreviated |-> abbreviated]
    ELSE
    LET pair_of_words == unwrap(prev) \o <<" ">> \o word
        pair == attempt_abbrev(abbreviator, abbreviated, pair_of_words)
    IN  IF pair.found THEN [prev_word |-> None, abbreviated |-> pair.abbreviated]
        ELSE [prev_word |-> Some(word),
              abbreviated |-> abbrev_or_add(abbreviator, abbreviated, unwrap(prev))]

\* Cow<str>
Borrowed(s) == [kind |-> "Borrowed", str |-> s]
Owned(s) == [kind |-> "Owned", str |-> s]

(***************************************************************************)
(* The inputs of the model                                                 *)
(***************************************************************************)
\* The greatest number of lines of a rule source given to from_lines.
MaxLines == 2
\* The greatest number of whitespace-delimited tokens of a text.
MaxWords == 3
\* The greatest desired_max_length.
MaxLen == 3

\* Rule lines: every shape parse_abbrev and from_lines tell apart.
RuleLines ==
    { <<"a", "b", " ", "=", " ", "x", "y">>,             \* ab = xy
      <<"a", "b", " ", "=">>,                            \* ab =
      <<"A", "b", " ", "=", " ", "Z">>,                  \* Ab = Z
      <<"a", "-", "b", " ", "=", " ", "h">>,             \* a-b = h
      <<"a", " ", " ", "b", " ", "=", " ", "w">>,        \* a  b = w
      <<"a", " ", "b", " ", "=", " ", "<", "+", "p">>,   \* a b = <+p
      <<"/", "b", "/", "i", " ", "=", " ", "r">>,        \* /b/i = r
      <<"/", "a", "/", " ", "=">>,                       \* /a/ =
      <<"/", "(", "b", "/", " ", "=", " ", "r">>,        \* /(b/ = r
      <<"/", "b", " ", "=", " ", "r">>,                  \* /b = r
      <<"a", "b">>,                                      \* ab
      <<"#", " ", "a", "b", " ", "=", " ", "q">>,        \* # ab = q
      <<" ", " ">>,                                      \* a blank line
      <<"a", "b", " ", "=", " ", "U+00E9", "x">> }       \* ab = (e-acute)x

RuleSources == UNION {[1..n -> RuleLines] : n \in 0..MaxLines}

\* The texts given to abbreviate.
Queries ==
    { <<"a", "b">>, <<"A", "b">>, <<"A", "B">>, <<"a", "-", "b">>,
      <<"A", " ", " ", "b">>, <<"a", " ", "b">>, <<"B">>, <<>> }

\* Rule files after the one of tests::test_shorten.
NoFile == <<>>
TestFile ==
    << <<"S", "e", "s", "s", "i", "o", "n", " ", "=", " ", "s", "e", "s", "n">>,
       <<" ", " ">>,
       <<"O", "n", "e", " ", "=", " ", "1">>,
       <<"#", " ", "W", "e", "e", "k", "l", "y", " ", "=", " ", "W">>,
       <<"R", "e", "s", "c", "h", "e", "d", "u", "l", "e", "d", " ", "=">>,
       <<"[", "M", "o", "n", "t", "h", "l", "y", "]", " ", "=", " ", "[", "M", "]">>,
       <<"M", "o", "n", "t", "h", "l", "y", " ", "=", " ", "U+6BCE", "U+6708">> >>
PhraseFile ==
    << <<"S", "e", "s", "s", "i", "o", "n", " ", "o", "n", "e", " ", "=", " ", "s", "1">>,
       <<"S", "e", "s", "s", "i", "o", "n", " ", "=", " ", "s", "e", "s", "n">>,
       <<"M", "o", "n", "t", "h", "l", "y", " ", "=", " ", "U+6BCE", "U+6708">>,
       <<"U+6BCE", " ", "=", " ", "<", "+", "U+9031">>,
       <<"o", "n", "e", " ", "=">> >>
\* A replacement that holds whitespace: Session = s  n
SpacedFile ==
    << <<"S", "e", "s", "s", "i", "o", "n", " ", "=", " ", "s", " ", " ", "n">> >>
RuleFiles == {NoFile, TestFile, PhraseFile, SpacedFile}

Tokens ==
    { <<"S", "e", "s", "s", "i", "o", "n">>,
      <<"o", "n", "e">>,
      <<"*", "R", "e", "s", "c", "h", "e", "d", "u", "l", "e", "d", "*">>,
      <<"[", "M", "o", "n", "t", "h", "l", "y", "]">>,
      <<"*">>,
      <<"U+6BCE">> }

\* A text: tokens separated by one space; or the same with a space before and
\* after; or separated by two spaces.
Layouts == {"plain", "padded", "wide"}
Layout(ws, layout) ==
    IF layout = "padded" THEN <<" ">> \o join(ws, <<" ">>) \o <<" ">>
    ELSE IF layout = "wide" THEN join(ws, <<" ", " ">>)
    ELSE join(ws, <<" ">>)

Texts ==
    {<<>>, <<" ", " ">>} \cup
    {Layout(ws, l) : ws \in UNION {[1..n -> Tokens] : n \in 1..MaxWords}, l \in Layouts}

(***************************************************************************)
(* The state                                                               *)
(***************************************************************************)
VARIABLES
    pc,                 \* where the program is
    rules,              \* from_lines: the lines it was given
    lines,              \* from_lines: the lines not yet read
    replace_matchers,   \* Abbreviator
    remove_matchers,
    regex_matchers,
    has_matchers,
    error,              \* the report of the Err from_lines returned
    query,              \* abbreviate: its argument
    answer,             \* abbreviate: what it returned
    desired_max_length, \* Shortener
    text,               \* shorten: its argument
    words,              \* shorten: the words not yet read
    prev_word,
    abbreviated,
    output              \* shorten: what it returned

abbrev_vars == <<rules, lines, replace_matchers, remove_matchers, regex_matchers,
                 has_matchers, error>>
query_vars == <<query, answer>>
shorten_vars == <<desired_max_length, text, words, prev_word, abbreviated, output>>
vars == <<pc, abbrev_vars, query_vars, shorten_vars>>

\* The Abbreviator of the current state.
abbreviator ==
    [has_matchers |-> has_matchers, replace_matchers |-> replace_matchers,
     remove_matchers |-> remove_matchers, regex_matchers |-> regex_matchers]

EmptyMap == [k \in {} |-> None]

\* HashMap::insert
insert(map, key, value) ==
    [k \in DOMAIN map \cup {key} |-> IF k = key THEN value ELSE map[k]]

InitWith(sources) ==
    /\ pc = "from_lines"
    /\ rules \in sources
    /\ lines = rules
    /\ replace_matchers = EmptyMap
    /\ remove_matchers = {}
    /\ regex_matchers = <<>>
    /\ has_matchers = FALSE
    /\ error = None
    /\ query = None
    /\ answer = None
    /\ desired_max_length = 0
    /\ text = <<>>
    /\ words = <<>>
    /\ prev_word = None
    /\ abbreviated = <<>>
    /\ output = None

(***************************************************************************)
(* Abbreviator::from_lines: one iteration of its loop, and its end         *)
(***************************************************************************)
skipped(line) == line = <<>> \/ starts_with(line, <<"#">>)

FromLinesLine ==
    /\ pc = "from_lines"
    /\ lines /= <<>>
    /\ LET line == trim(Head(lines))
           parsed == parse_abbrev(line)
       IN  IF skipped(line)
           THEN /\ lines' = Tail(lines)
                /\ UNCHANGED <<pc, rules, replace_matchers, remove_matchers,
                               regex_matchers, has_matchers, error>>
           ELSE IF parsed.status = "panic"
           THEN /\ pc' = "from_lines_panicked"
                /\ UNCHANGED abbrev_vars
           ELSE IF parsed.status = "err"
           THEN \* `?`: the maps built so far are dropped with the call
                /\ pc' = "error"
                /\ error' = Some(parsed.error)
                /\ lines' = <<>>
                /\ replace_matchers' = EmptyMap
                /\ remove_matchers' = {}
                /\ regex_matchers' = <<>>
                /\ UNCHANGED <<rules, has_matchers>>
           ELSE /\ lines' = Tail(lines)
                /\ IF parsed.abbrev.matcher.kind = "Lowercase"
                   THEN IF parsed.abbrev.abbrev = <<>>
                        THEN /\ remove_matchers' =
                                    remove_matchers \cup {parsed.abbrev.matcher.text}
                             /\ UNCHANGED <<replace_matchers, regex_matchers>>
                        ELSE /\ replace_matchers' =
                                    insert(replace_matchers, parsed.abbrev.matcher.text,
                                           parsed.abbrev)
                             /\ UNCHANGED <<remove_matchers, regex_matchers>>
                   ELSE /\ regex_matchers' = Append(regex_matchers, parsed.abbrev)
                        /\ UNCHANGED <<replace_matchers, remove_matchers>>
                /\ UNCHANGED <<pc, rules, has_matchers, error>>
    /\ UNCHANGED <<query_vars, shorten_vars>>

FromLinesOk ==
    /\ pc = "from_lines"
    /\ lines = <<>>
    /\ has_matchers' = ~(/\ DOMAIN replace_matchers = {}
                         /\ remove_matchers = {}
                         /\ regex_matchers = <<>>)
    /\ pc' = "abbreviator"
    /\ UNCHANGED <<rules, lines, replace_matchers, remove_matchers, regex_matchers,
                   error, query_vars, shorten_vars>>

(***************************************************************************)
(* Abbreviator::abbreviate, called on the compiled Abbreviator             *)
(***************************************************************************)
Abbreviate ==
    /\ pc \in {"abbreviator", "abbreviated"}
    /\ \E t \in Queries :
        /\ query' = Some(t)
        /\ answer' = abbreviate(abbreviator, t)
    /\ pc' = "abbreviated"
    /\ UNCHANGED <<abbrev_vars, shorten_vars>>

(***************************************************************************)
(* Shortener::with_abbreviator, Shortener::shorten                         *)
(***************************************************************************)
WithAbbreviator ==
    /\ pc = "abbreviator"
    /\ \E max \in 0..MaxLen : desired_max_length' = max
    /\ pc' = "shortener"
    /\ UNCHANGED <<abbrev_vars, query_vars, text, words, prev_word, abbreviated, output>>

\* The call, up to the loop: the two early returns (lines 36-48).
Shorten ==
    /\ pc = "shortener"
    /\ \E t \in Texts :
        /\ text' = t
        /\ IF len(t) <= desired_max_length
           THEN /\ output' = Some(Borrowed(t))
                /\ pc' = "returned"
                /\ UNCHANGED <<words, prev_word, abbreviated>>
           ELSE IF len(trim(t)) <= desired_max_length
           THEN /\ output' = Some(Borrowed(trim(t)))
                /\ pc' = "returned"
                /\ UNCHANGED <<words, prev_word, abbreviated>>
           ELSE /\ words' = split_whitespace(trim(t))
                /\ prev_word' = None
                /\ abbreviated' = <<>>
                /\ output' = None
                /\ pc' = "shorten"
    /\ UNCHANGED <<abbrev_vars, query_vars, desired_max_length>>

\* One iteration of `for word in words` (lines 49-92).
ShortenWord ==
    /\ pc = "shorten"
    /\ words /= <<>>
    /\ LET word == Head(words)
           enclosed == process_enclosed_word(word)
       IN  IF enclosed.status = "panic"
           THEN /\ pc' = "shorten_panicked"
                /\ UNCHANGED <<words, prev_word, abbreviated>>
           ELSE LET next == IF is_enclosed(enclosed)
                            THEN enclosed_word(abbreviator, prev_word, abbreviated,
                                               word, enclosed)
                            ELSE plain_word(abbreviator, prev_word, abbreviated, word)
                IN  /\ prev_word' = next.prev_word
                    /\ abbreviated' = next.abbreviated
                    /\ words' = Tail(words)
                    /\ UNCHANGED pc
    /\ UNCHANGED <<abbrev_vars, query_vars, desired_max_length, text, output>>

\* After the loop (lines 94-99).
ShortenReturn ==
    /\ pc = "shorten"
    /\ words = <<>>
    /\ abbreviated' = IF is_some(prev_word)
                      THEN abbrev_or_add(abbreviator, abbreviated, unwrap(prev_word))
                      ELSE abbreviated
    /\ prev_word' = None
    /\ output' = Some(Owned(abbreviated'))
    /\ pc' = "returned"
    /\ UNCHANGED <<abbrev_vars, query_vars, desired_max_length, text, words>>

\* main.rs: the loop over the lines of the input prints the result of one call
\* and goes on to the next line (lines 26-30).
MainNextLine ==
    /\ pc = "returned"
    /\ pc' = "shortener"
    /\ text' = <<>>
    /\ output' = None
    /\ abbreviated' = <<>>
    /\ UNCHANGED <<abbrev_vars, query_vars, desired_max_length, words, prev_word>>

(***************************************************************************)
(* The specifications                                                      *)
(***************************************************************************)
\* The Shortener over the rule files.
Init == InitWith(RuleFiles)
Next == FromLinesLine \/ FromLinesOk \/ WithAbbreviator \/ Shorten \/ ShortenWord
            \/ ShortenReturn \/ MainNextLine
Spec == Init /\ [][Next]_vars

\* The Abbreviator over every rule source of at most MaxLines lines.
InitAbbrev == InitWith(RuleSources)
NextAbbrev == FromLinesLine \/ FromLinesOk \/ Abbreviate
SpecAbbrev == InitAbbrev /\ [][NextAbbrev]_vars

(***************************************************************************)
(* Properties                                                              *)
(***************************************************************************)
Str(o) == unwrap(o).str

Session == <<"S", "e", "s", "s", "i", "o", "n">>
One == <<"o", "n", "e">>
Monthly == <<"[", "M", "o", "n", "t", "h", "l", "y", "]">>

\* C1: shorten never fails: for every text, max length and rule set it returns
\* a string; it never panics.
C1_ShortenNeverPanics == pc /= "shorten_panicked"

\* C2: a text that fits is never abbreviated: if length(t) <= max the result is
\* exactly t; otherwise, if length(trim(t)) <= max, the result is exactly
\* trim(t).  The length is the number of characters (C9).
C2_FittingTextUnchanged ==
    pc = "returned" =>
        /\ chars_count(text) <= desired_max_length => Str(output) = text
        /\ (/\ chars_count(text) > desired_max_length
            /\ chars_count(trim(text)) <= desired_max_length) => Str(output) = trim(text)

\* C9: the max length is a character count: a text whose number of characters
\* is at most max is returned unchanged, whatever its length in bytes.
C9_MaxIsCharacterCount ==
    (pc = "returned" /\ chars_count(text) <= desired_max_length) => Str(output) = text

(***************************************************************************)
(* C3: case adaptation                                                     *)
(***************************************************************************)
\* The lines of the rule source that from_lines reads as rules.
RuleIndexes == {i \in 1..Len(rules) : ~skipped(trim(rules[i]))}
RuleAt(i) == parse_abbrev(trim(rules[i])).abbrev
\* The literal rules stored under key k.
LiteralRulesAt(k) ==
    {i \in RuleIndexes : RuleAt(i).matcher.kind = "Lowercase" /\ RuleAt(i).matcher.text = k}
\* The rule whose replacement answers the query: the replace rule that alone
\* holds the key of the query or, no literal rule holding it, the first regex
\* rule that matches the query.
DecidingRules ==
    LET x == unwrap(query)
        literal == LiteralRulesAt(lowercase_of(x))
    IN  {i \in RuleIndexes :
            \/ literal = {i} /\ RuleAt(i).abbrev /= <<>>
            \/ /\ literal = {}
               /\ RuleAt(i).matcher.kind = "Regex"
               /\ is_match(RuleAt(i).matcher, x)
               /\ \A j \in RuleIndexes :
                    (j < i /\ RuleAt(j).matcher.kind = "Regex")
                        => ~is_match(RuleAt(j).matcher, x)}

Capitalized(r) == <<char_make_ascii_uppercase(r[1])>> \o Tail(r)
StartsLowercase(r) == r /= <<>> /\ is_lowercase(r[1])
StartsUppercase(x) == x /= <<>> /\ is_uppercase(x[1])
AllUppercase(x) == Len(x) >= 2 /\ \A i \in 1..Len(x) : is_uppercase(x[i])
AllLowercase(x) == x /= <<>> /\ \A i \in 1..Len(x) : is_lowercase(x[i])
TitleCase(x) == StartsUppercase(x) /\ Len(x) >= 2 /\ \A i \in 2..Len(x) : ~is_uppercase(x[i])

\* C3, as amended: a rule whose replacement starts with a lowercase letter
\* answers with the capitalized variant whenever the first character of the
\* input is uppercase (title case and all-uppercase alike) and with the literal
\* replacement otherwise; a rule whose replacement does not start lowercase
\* always answers with the literal replacement.
C3_CaseFollowsFirstCharacter ==
    pc = "abbreviated" =>
        \A i \in DecidingRules :
            LET r == RuleAt(i).abbrev
                x == unwrap(query)
            IN  /\ is_some(answer)
                /\ unwrap(answer).text =
                       IF StartsLowercase(r) /\ StartsUppercase(x) THEN Capitalized(r) ELSE r

\* C3, as claimed: the capitalized variant for a title-case input, the literal
\* replacement for an all-uppercase or all-lowercase input.
C3_CaseAsClaimed ==
    pc = "abbreviated" =>
        \A i \in DecidingRules :
            LET r == RuleAt(i).abbrev
                x == unwrap(query)
            IN  /\ is_some(answer)
                /\ (StartsLowercase(r) /\ TitleCase(x)) => unwrap(answer).text = Capitalized(r)
                /\ (StartsLowercase(r) /\ (AllUppercase(x) \/ AllLowercase(x)))
                        => unwrap(answer).text = r
                /\ ~StartsLowercase(r) => unwrap(answer).text = r

\* `ab = xy` asked for `AB`: the answer is `Xy`.
C3_Witness ==
    /\ pc = "abbreviated"
    /\ rules = << <<"a", "b", " ", "=", " ", "x", "y">> >>
    /\ query = Some(<<"A", "B">>)
    /\ answer = Some(Abbreviation(<<"X", "y">>, FALSE))

(***************************************************************************)
(* C4, C5, C6: the rule source                                             *)
(***************************************************************************)
\* What a literal rule answers to x.
RuleResult(abbrev, x) ==
    IF abbrev.abbrev = <<>> THEN Abbreviation(<<>>, TRUE)
    ELSE Abbreviation(IF StartsLowercase(abbrev.abbrev) /\ StartsUppercase(x)
                      THEN Capitalized(abbrev.abbrev) ELSE abbrev.abbrev,
                      abbrev.attach_to_previous)

\* The matcher of rule line i, as written.
MatcherAt(i) ==
    LET line == trim(rules[i]) IN trim(SubSeq(line, 1, unwrap(find(line, "="))))
IsLiteralRule(i) == RuleAt(i).matcher.kind = "Lowercase"

\* C4: every stored literal key is in the normal form abbreviate gives its
\* input, and a literal rule whose matcher differs from the input only in letter
\* case, hyphen versus space or amount of whitespace answers the input.
C4_LookupsNormalizationSymmetric ==
    pc = "abbreviated" =>
        /\ \A k \in DOMAIN replace_matchers \cup remove_matchers : lowercase_of(k) = k
        /\ \A i \in RuleIndexes :
            (/\ IsLiteralRule(i)
             /\ lowercase_of(MatcherAt(i)) = lowercase_of(unwrap(query))
             /\ \A j \in RuleIndexes \ {i} : ~IsLiteralRule(j))
                => answer = Some(RuleResult(RuleAt(i), unwrap(query)))

Max(S) == CHOOSE m \in S : \A n \in S : n <= m

\* C5: when several literal rules have the same key, abbreviate answers as the
\* last of them alone would.
C5_LastLiteralRuleWins ==
    pc = "abbreviated" =>
        LET same == LiteralRulesAt(lowercase_of(unwrap(query)))
        IN  Cardinality(same) >= 2
                => answer = Some(RuleResult(RuleAt(Max(same)), unwrap(query)))

NoSeparator(line) == ~contains(line, "=")
RegexMatcherOf(line) == strip_prefix(trim(SubSeq(line, 1, unwrap(find(line, "=")))), <<"/">>)
NoClosingSlash(line) ==
    /\ ~NoSeparator(line)
    /\ is_some(RegexMatcherOf(line))
    /\ ~contains(unwrap(RegexMatcherOf(line)), "/")
InvalidPattern(line) ==
    /\ ~NoSeparator(line)
    /\ is_some(RegexMatcherOf(line))
    /\ contains(unwrap(RegexMatcherOf(line)), "/")
    /\ LET rm == unwrap(RegexMatcherOf(line))
       IN  ~regex_build_ok(SubSeq(rm, 1, unwrap(find(rm, "/"))))
Faulty(line) == NoSeparator(line) \/ NoClosingSlash(line) \/ InvalidPattern(line)

\* C6: from_lines ends in one of two ways: an Abbreviator, no rule line being
\* faulty, or an error, some rule line having no `=`, no closing `/` or an
\* invalid pattern, and then no Abbreviator.
C6_CompilationOutcomes ==
    pc /= "from_lines" =>
        \/ /\ pc \in {"abbreviator", "abbreviated"}
           /\ \A i \in RuleIndexes : ~Faulty(trim(rules[i]))
        \/ /\ pc = "error"
           /\ \E i \in RuleIndexes : Faulty(trim(rules[i]))
           /\ DOMAIN replace_matchers = {} /\ remove_matchers = {} /\ regex_matchers = <<>>

(***************************************************************************)
(* C7: phrase before single word                                           *)
(***************************************************************************)
Unenclosed(word) ==
    /\ process_enclosed_word(word).status = "ok"
    /\ ~is_enclosed(process_enclosed_word(word))

C7_Step ==
    (/\ pc = "shorten"
     /\ words /= <<>>
     /\ is_some(prev_word)
     /\ Unenclosed(Head(words)))
        => LET cur == Head(words)
               prev == unwrap(prev_word)
               phrase == abbreviate(abbreviator, prev \o <<" ">> \o cur)
               alone == abbreviate(abbreviator, prev)
           IN  IF is_some(phrase)
               THEN /\ abbreviated' = add_abbrev(abbreviated, unwrap(phrase))
                    /\ prev_word' = None
               ELSE /\ abbreviated' = IF is_some(alone)
                                      THEN add_abbrev(abbreviated, unwrap(alone))
                                      ELSE add_with_space(abbreviated, prev)
                    /\ prev_word' = Some(cur)

\* `Session one` with `Session = sesn` and `One = 1` gives `Sesn 1`.
C7_Example ==
    (pc = "returned" /\ rules = TestFile /\ text = Session \o <<" ">> \o One
        /\ unwrap(output).kind = "Owned")
        => Str(output) = <<"S", "e", "s", "n", " ", "1">>

\* C7: a word that arrives while a look-behind word is pending is first tried
\* with it as a two-word phrase: if a rule matches the phrase, its result is
\* emitted and no look-behind is left; if none does, the look-behind is
\* abbreviated or appended alone and the word becomes the look-behind.
C7_PhraseBeforeSingleWord == [][C7_Step]_vars /\ [](C7_Example)

\* `Session one` with the rule `Session one = s1` gives `S1`.
C7_Witness ==
    /\ pc = "returned"
    /\ rules = PhraseFile
    /\ text = Session \o <<" ">> \o One
    /\ output = Some(Owned(<<"S", "1">>))

(***************************************************************************)
(* C8: the resolution of an enclosed token                                 *)
(***************************************************************************)
\* x is emitted after `before`, giving `after`: nothing when x is empty.
Emits(before, after, x) ==
    IF x = <<>> THEN after = before
    ELSE after = before \o x \/ after = before \o <<" ">> \o x

HasEnclosing(token) == opener_len(token) > 0 \/ closer_len(token) > 0

C8_Step ==
    (pc = "shorten" /\ words /= <<>> /\ HasEnclosing(Head(words)))
        => LET token == Head(words)
               flushed == IF is_some(prev_word)
                          THEN abbrev_or_add(abbreviator, abbreviated, unwrap(prev_word))
                          ELSE abbreviated
               whole == abbreviate(abbreviator, token)
               o == opener_len(token)
               c == closer_len(token)
               openers == SubSeq(token, 1, o)
               core == SubSeq(token, o + 1, Len(token) - c)
               closers == SubSeq(token, Len(token) - c + 1, Len(token))
               inner == abbreviate(abbreviator, core)
           IN  /\ pc' = "shorten"
               /\ prev_word' = None
               /\ IF is_some(whole) THEN Emits(flushed, abbreviated', unwrap(whole).text)
                  ELSE IF o + c > Len(token) THEN Emits(flushed, abbreviated', token)
                  ELSE IF is_some(inner) /\ unwrap(inner).text /= <<>>
                  THEN Emits(flushed, abbreviated', openers \o unwrap(inner).text \o closers)
                  ELSE IF is_some(inner) THEN abbreviated' = flushed
                  ELSE Emits(flushed, abbreviated', token)

\* C8: for every token with openers or closers, shorten flushes the look-behind
\* word, then emits (a) the result of a rule for the whole token, else (b) the
\* openers, the abbreviated core and the closers, or (b') nothing when the rule
\* of the core deletes it, else (c) the token unchanged.
C8_EnclosedResolution == [][C8_Step]_vars

(***************************************************************************)
(* C10: deleted words leave no residue                                     *)
(***************************************************************************)
NoStraySpace(s) ==
    \/ s = <<>>
    \/ /\ s[1] /= " "
       /\ s[Len(s)] /= " "
       /\ \A i \in 1..(Len(s) - 1) : ~(s[i] = " " /\ s[i + 1] = " ")

ReplacementsOf(a) ==
    {a.replace_matchers[k].abbrev : k \in DOMAIN a.replace_matchers}
        \cup {a.regex_matchers[i].abbrev : i \in 1..Len(a.regex_matchers)}
NoWhitespaceInReplacements(a) == \A r \in ReplacementsOf(a) : ~contains(r, " ")

\* C10: with replacements free of whitespace, the string shorten builds never
\* starts with a space, never ends with one and never has two in a row.
C10_NoResidue ==
    (pc \in {"shorten", "returned"} /\ NoWhitespaceInReplacements(abbreviator))
        => /\ NoStraySpace(abbreviated)
           /\ (is_some(output) /\ unwrap(output).kind = "Owned") => NoStraySpace(Str(output))

\* `Session [Monthly] one` with `one =`: the last word is deleted and the
\* result, `Sesn [..]`, has no trailing space.
C10_Witness ==
    /\ pc = "returned"
    /\ rules = PhraseFile
    /\ text = Session \o <<" ">> \o Monthly \o <<" ">> \o One
    /\ output = Some(Owned(<<"S", "e", "s", "n", " ", "[", "U+6BCE", "U+6708", "]">>))

====
